---- MODULE Spec2Model ----
(***************************************************************************)
(* A model of drf-stripe-subscription's reconciliation layer: the local    *)
(* tables (users, StripeUser, billing accounts, Subscription,              *)
(* SubscriptionItem), the remote customer list, and one action per entry   *)
(* point that writes them.                                                 *)
(***************************************************************************)
EXTENDS Integers, Sequences, FiniteSets, TLC

\* ------------------------------------------------------------------ bounds
\* Largest line-item quantity a remote item carries.
MaxQty == 2
\* Largest number of remote records in one page of a bulk pull.
MaxPage == 2
\* Number of concurrent first-time checkout requests.
NProc == 2

\* ------------------------------------------------------------ identifiers
\* Primary keys of local users and billing accounts (0 is SQL NULL).
Users == {1, 2}
Accounts == {1, 2, 3}
Emails == {"e1", "e2"}
\* Remote customers, in the order stripe.Customer.list returns them (newest
\* first).
CustOrder == <<"c3", "c2", "c1">>
Customers == {CustOrder[i] : i \in 1..Len(CustOrder)}
SubIds == {"s1", "s2"}
ItemIds == {"i1", "i2", "i3"}
\* Rows of the local Price table; "p2" is a remote price with no local row.
Prices == {"p1"}
Statuses == {"active", "canceled"}
\* The customer a remote subscription belongs to (fixed on the provider side).
SubCustomer == [s \in SubIds |-> IF s = "s1" THEN "c1" ELSE "c2"]

\* BILLING_ACCOUNT_MODEL values, as the dot-separated parts of the path:
\* unset, "tests.Company", "Company", "tests.Missing", "tests.models.Company".
BillingPaths == {<<>>, <<"tests", "Company">>, <<"Company">>,
                 <<"tests", "Missing">>, <<"tests", "models", "Company">>}
\* The models the app registry knows, as <<app_label, model_name>>.
InstalledModels == {<<"tests", "Company">>}

VARIABLES
    users,       \* auth user table: pk -> email, "none" when there is no row
    stripeUser,  \* StripeUser table: user pk -> customer_id, "norow", "null"
    accounts,    \* billing-account table: pk -> row
    subs,        \* Subscription table: subscription_id -> row
    items,       \* SubscriptionItem table: sub_item_id -> row
    remote,      \* the provider's customers: id -> email, "none" when absent
    cfg,         \* DRF_STRIPE settings and the shape of the billing model
    last,        \* the last call that wrote to the database or the provider
    pc,          \* concurrent checkout requests: position of each
    txn,         \* concurrent checkout requests: local state of each
    drf_stripe_settings  \* Django's DRF_STRIPE and the DrfStripeSettings object

dbvars == <<users, stripeUser, accounts, subs, items, remote>>
vars == <<users, stripeUser, accounts, subs, items, remote, cfg, last, pc, txn,
          drf_stripe_settings>>

\* The database and the provider as one value.
DB == [users |-> users, su |-> stripeUser, acc |-> accounts, subs |-> subs,
       items |-> items, remote |-> remote]

NoAccount == [exists |-> FALSE, cust |-> "null", sub |-> "null", manager |-> 0,
              ownerCt |-> "null", ownerId |-> 0]
NoSub == [exists |-> FALSE, stripe_user |-> 0, ba_ct |-> FALSE, ba_id |-> 0,
          status |-> "null"]
NoItem == [exists |-> FALSE, sub |-> "null", price |-> "null", quantity |-> 0]

\* QuerySet.first(): the row with the lowest primary key, 0 when none.
First(S) == IF S = {} THEN 0 ELSE CHOOSE x \in S : \A y \in S : x <= y

\* ------------------------------------------------------- billing model
Lookup(parts) == IF parts \in InstalledModels THEN "model" ELSE "LookupError"

\* apps.get_model(app_label, model_name) after path.split('.', 1).
GetModelTwoArgs(path) ==
    IF Len(path) < 2 THEN "ValueError"
    ELSE IF Len(path) = 2 THEN Lookup(path)
    ELSE "LookupError"

\* apps.get_model(path): the path must hold exactly one dot.
GetModelOneArg(path) ==
    IF Len(path) # 2 THEN "ValueError" ELSE Lookup(path)

\* "model", "none", or "ValueError" when the exception leaves the function.
get_billing_model(path) ==
    IF path = <<>> THEN "none"
    ELSE IF GetModelTwoArgs(path) = "model" THEN "model"
    ELSE LET b == GetModelOneArg(path)
         IN  IF b = "LookupError" THEN "none" ELSE b

\* The pk of the account found, 0 for None.
find_billing_account(acc, bm, customer_id, user) ==
    IF bm # "model" THEN 0
    ELSE IF customer_id # "null"
    THEN First({a \in Accounts : acc[a].exists /\ acc[a].cust = customer_id})
    ELSE IF user # 0
    THEN First({a \in Accounts : acc[a].exists /\ acc[a].manager = user})
    ELSE 0

\* ------------------------------------------------- customers and users
\* stripe.Customer.list(email=...): the matching customers, in list order.
CustomerList(rem, email) ==
    SelectSeq(CustOrder, LAMBDA c : rem[c] = email)

\* The id stripe.Customer.create gives a new customer: the oldest unused one.
NewCustomerId(rem) ==
    LET free == {i \in 1..Len(CustOrder) : rem[CustOrder[i]] = "none"}
    IN  IF free = {} THEN "bound"
        ELSE CustOrder[CHOOSE i \in free : \A j \in free : j <= i]

\* [remote, id, created]: list.pop() of the customers with that e-mail, a new
\* customer when there is none.
stripe_api_get_or_create_customer_from_email(rem, email) ==
    LET l == CustomerList(rem, email)
    IN  IF Len(l) > 0
        THEN [remote |-> rem, id |-> l[Len(l)], created |-> FALSE]
        ELSE LET n == NewCustomerId(rem)
             IN  IF n = "bound"
                 THEN [remote |-> rem, id |-> "bound", created |-> FALSE]
                 ELSE [remote |-> [rem EXCEPT ![n] = email], id |-> n, created |-> TRUE]

\* The outcome of a call that resolves a StripeUser: the database after it,
\* the user whose link is returned (0 when it raised), the exception raised
\* ("ok" when none) and whether the provider was contacted.
Outcome(d, u, e, r) == [db |-> d, user |-> u, err |-> e, remoteCalled |-> r]

\* A variant that looks the customer up whether or not the row was created.
get_or_create_stripe_user_from_user_id_email_refresh(d, user_id, user_email, customer_id) ==
    IF customer_id # "null"
    THEN Outcome([d EXCEPT !.su[user_id] = IF @ = "norow" THEN customer_id ELSE @],
                 user_id, "ok", FALSE)
    ELSE LET c == stripe_api_get_or_create_customer_from_email(d.remote, user_email)
         IN  IF c.id = "bound" THEN Outcome(d, 0, "bound", TRUE)
             ELSE Outcome([d EXCEPT !.su[user_id] = c.id, !.remote = c.remote],
                          user_id, "ok", TRUE)

\* StripeUser.objects.get_or_create(user_id=..., defaults=...), then the
\* customer lookup for a row created without a customer id.
get_or_create_stripe_user_from_user_id_email(d, user_id, user_email, customer_id) ==
    IF d.su[user_id] # "norow" THEN Outcome(d, user_id, "ok", FALSE)
    ELSE IF customer_id # "null"
    THEN Outcome([d EXCEPT !.su[user_id] = customer_id], user_id, "ok", FALSE)
    ELSE LET c == stripe_api_get_or_create_customer_from_email(d.remote, user_email)
         IN  IF c.id = "bound" THEN Outcome(d, 0, "bound", TRUE)
             ELSE Outcome([d EXCEPT !.su[user_id] = c.id, !.remote = c.remote],
                          user_id, "ok", TRUE)

\* get_or_create_stripe_user(user_id=...).
get_or_create_stripe_user_from_user_id(d, user_id) ==
    IF d.users[user_id] = "none" THEN Outcome(d, 0, "DoesNotExist", FALSE)
    ELSE get_or_create_stripe_user_from_user_id_email(d, user_id, d.users[user_id], "null")

\* The lowest unused user pk, 0 when the table is full.
NewUserId(d) == First({u \in Users : d.users[u] = "none"})

\* [db, user, err]: the user with the customer's e-mail, created from the
\* attribute map when there is none and the map is set.
get_or_create_django_user_if_configured(d, createMap, email) ==
    LET found == First({u \in Users : d.users[u] = email})
        n == NewUserId(d)
    IN  IF found # 0 THEN [db |-> d, user |-> found, err |-> "ok"]
        ELSE IF ~createMap
        THEN [db |-> d, user |-> 0, err |-> "CreatingNewUsersDisabledError"]
        ELSE IF n = 0 THEN [db |-> d, user |-> 0, err |-> "bound"]
        ELSE [db |-> [d EXCEPT !.users[n] = email], user |-> n, err |-> "ok"]

\* get_or_create_stripe_user(customer_id=...).
get_or_create_stripe_user_from_customer_id(d, createMap, customer_id) ==
    LET linked == {u \in Users : d.su[u] = customer_id}
    IN  IF Cardinality(linked) > 1 THEN Outcome(d, 0, "MultipleObjectsReturned", FALSE)
        ELSE IF Cardinality(linked) = 1
        THEN LET u == First(linked)
             IN  get_or_create_stripe_user_from_user_id_email(d, u, d.users[u], customer_id)
        ELSE IF d.remote[customer_id] = "none"
        THEN Outcome(d, 0, "InvalidRequestError", TRUE)
        ELSE LET r == get_or_create_django_user_if_configured(d, createMap, d.remote[customer_id])
             IN  IF r.err # "ok" THEN Outcome(d, 0, r.err, TRUE)
                 ELSE LET o == get_or_create_stripe_user_from_user_id_email(
                                   r.db, r.user, r.db.users[r.user], customer_id)
                      IN  Outcome(o.db, o.user, o.err, TRUE)

\* get_or_create_stripe_user_from_customer(customer), customer = [id, email].
get_or_create_stripe_user_from_customer(d, createMap, customer) ==
    LET linked == {u \in Users : d.su[u] = customer.id}
    IN  IF Cardinality(linked) > 1 THEN Outcome(d, 0, "MultipleObjectsReturned", FALSE)
        ELSE IF Cardinality(linked) = 1 THEN Outcome(d, First(linked), "ok", FALSE)
        ELSE LET r == get_or_create_django_user_if_configured(d, createMap, customer.email)
             IN  IF r.err # "ok" THEN Outcome(d, 0, r.err, FALSE)
                 ELSE IF r.db.su[r.user] = "norow"
                 THEN Outcome([r.db EXCEPT !.su[r.user] = customer.id], r.user, "ok", FALSE)
                 ELSE IF r.db.su[r.user] # "null"
                 THEN Outcome(r.db, 0, "ValueError", FALSE)
                 ELSE Outcome(r.db, r.user, "ok", FALSE)

\* ------------------------------------------------------- subscriptions
\* Remote line items: "i1" and "i2" belong to "s1", "i3" to "s2".
ItemVariants(i) ==
    IF i = "i1" THEN {[id |-> i, price |-> "p1", quantity |-> q] : q \in 1..MaxQty}
    ELSE IF i = "i2" THEN {[id |-> i, price |-> p, quantity |-> 1] : p \in {"p1", "p2"}}
    ELSE {[id |-> i, price |-> "p1", quantity |-> 1]}

\* The item lists a remote subscription can carry.
ItemLists(s) ==
    IF s = "s1"
    THEN {<<>>} \cup {<<a>> : a \in ItemVariants("i1")}
                \cup {<<b>> : b \in ItemVariants("i2")}
                \cup {<<a, b>> : a \in ItemVariants("i1"), b \in ItemVariants("i2")}
    ELSE {<<a>> : a \in ItemVariants("i3")}

\* The statuses a remote subscription is seen in.
SubStatuses(s) == IF s = "s1" THEN Statuses ELSE {"active"}

\* Remote subscription records, as stripe.Subscription.list and the
\* subscription events carry them.
RemoteSubs ==
    UNION {{[id |-> s, customer |-> SubCustomer[s], status |-> st, items |-> l] :
                st \in SubStatuses(s), l \in ItemLists(s)} : s \in SubIds}

\* Pages of a bulk pull: every single record, and the two-record pages (up
\* to MaxPage records with distinct ids) built from PairSubs.
PairSubs ==
    {r \in RemoteSubs : /\ r.status = "active"
                        /\ r.items \in {<<[id |-> "i1", price |-> "p1", quantity |-> 1]>>,
                                        <<[id |-> "i2", price |-> "p2", quantity |-> 1]>>,
                                        <<[id |-> "i3", price |-> "p1", quantity |-> 1]>>}}
SubPages ==
    {<<r>> : r \in RemoteSubs}
    \cup {p \in UNION {[1..n -> PairSubs] : n \in 2..MaxPage} :
            \A i, j \in 1..Len(p) : i # j => p[i].id # p[j].id}

\* A variant that drops a differing stored subscription id and stores the new
\* one only on a later call.
update_billing_account_subscription_staged(acc, ba, customer_id, subscription_id) ==
    IF ba = 0 THEN acc
    ELSE [acc EXCEPT
            ![ba].cust = IF @ = "null" THEN customer_id ELSE @,
            ![ba].sub = IF @ = "null" THEN subscription_id
                        ELSE IF @ # subscription_id THEN "null" ELSE @]

\* AbstractBillingAccount.has_active_subscription.
has_active_subscription(acc, a) == acc[a].sub # "null"

\* The update_fields list that update_billing_account_subscription and the
\* bulk pull build for the account ba; save is called when it is not empty.
account_update_fields(acc, ba, customer_id, subscription_id) ==
    IF ba = 0 THEN {}
    ELSE (IF acc[ba].cust = "null" THEN {"stripe_customer_id"} ELSE {})
         \cup (IF acc[ba].sub # subscription_id THEN {"stripe_subscription_id"} ELSE {})

\* update_billing_account_subscription: the account table after it. The
\* customer id is written only when none is stored, the subscription id
\* whenever it differs.
update_billing_account_subscription(acc, ba, customer_id, subscription_id) ==
    IF ba = 0 THEN acc
    ELSE [acc EXCEPT
            ![ba].cust = IF @ = "null" THEN customer_id ELSE @,
            ![ba].sub = IF @ # subscription_id THEN subscription_id ELSE @]

\* The bulk pull's own copy of the same update.
sync_update_billing_account(acc, ba, customer_id, subscription_id) ==
    IF ba = 0 THEN acc
    ELSE [acc EXCEPT
            ![ba].cust = IF @ = "null" THEN customer_id ELSE @,
            ![ba].sub = IF @ # subscription_id THEN subscription_id ELSE @]

\* A variant that leaves the legacy owner empty on a row linked to an account.
UpsertSubscription_exclusive(d, r, user, ba) ==
    [d EXCEPT !.subs[r.id] =
        [exists |-> TRUE, stripe_user |-> IF ba # 0 THEN 0 ELSE user,
         ba_ct |-> IF ba # 0 THEN TRUE ELSE IF @.exists THEN @.ba_ct ELSE FALSE,
         ba_id |-> IF ba # 0 THEN ba ELSE IF @.exists THEN @.ba_id ELSE 0,
         status |-> r.status]]

\* Subscription.objects.update_or_create(subscription_id=..., defaults=...).
UpsertSubscription(d, r, user, ba) ==
    [d EXCEPT !.subs[r.id] =
        [exists |-> TRUE, stripe_user |-> user,
         ba_ct |-> IF ba # 0 THEN TRUE ELSE IF @.exists THEN @.ba_ct ELSE FALSE,
         ba_id |-> IF ba # 0 THEN ba ELSE IF @.exists THEN @.ba_id ELSE 0,
         status |-> r.status]]

\* SubscriptionItem.objects.filter(subscription=...).delete().
DeleteItems(its, subscription_id) ==
    [i \in ItemIds |-> IF its[i].exists /\ its[i].sub = subscription_id
                       THEN NoItem ELSE its[i]]

\* SubscriptionItem.objects.update_or_create for items_data[i..]: [items, err].
\* A price with no local row fails the foreign key; the rows written before
\* it are kept in the result.
RECURSIVE CreateItems(_, _, _, _)
CreateItems(its, subscription_id, items_data, i) ==
    IF i > Len(items_data) THEN [items |-> its, err |-> "ok"]
    ELSE LET it == items_data[i]
         IN  IF it.price \notin Prices THEN [items |-> its, err |-> "IntegrityError"]
             ELSE CreateItems(
                    [its EXCEPT ![it.id] = [exists |-> TRUE, sub |-> subscription_id,
                                            price |-> it.price, quantity |-> it.quantity]],
                    subscription_id, items_data, i + 1)

\* A variant that keeps the rows of the subscription instead of deleting them.
update_subscription_items_keep(its, subscription_id, items_data) ==
    CreateItems(its, subscription_id, items_data, 1)

\* _update_subscription_items: [items, err].
update_subscription_items(its, subscription_id, items_data) ==
    CreateItems(DeleteItems(its, subscription_id), subscription_id, items_data, 1)

\* A variant in which the error always leaves the loop.
OnUserCreationDisabled_raise(ignore) == "raise"

\* The except clause of the loop for CreatingNewUsersDisabledError: raise it
\* again or skip the record.
OnUserCreationDisabled(ignore) == IF ignore THEN "skip" ELSE "raise"

\* One pass of the loop body of stripe_api_update_subscriptions for the
\* record r: [db, new, err, skip].
SyncStep(d, r, bm, createMap, ignore) ==
    LET o == get_or_create_stripe_user_from_customer_id(d, createMap, r.customer)
        ba == find_billing_account(o.db.acc, bm, r.customer, o.user)
        d1 == [o.db EXCEPT !.acc = sync_update_billing_account(@, ba, r.customer, r.id)]
        d2 == UpsertSubscription(d1, r, o.user, ba)
        it == update_subscription_items(d2.items, r.id, r.items)
    IN  IF o.err = "CreatingNewUsersDisabledError" /\ OnUserCreationDisabled(ignore) = "skip"
        THEN [db |-> d, new |-> 0, err |-> "ok", skip |-> {r.id}]
        ELSE IF o.err # "ok"
        THEN [db |-> d, new |-> 0, err |-> o.err, skip |-> {}]
        ELSE IF it.err # "ok"
        THEN [db |-> d, new |-> 0, err |-> it.err, skip |-> {}]
        ELSE [db |-> [d2 EXCEPT !.items = it.items],
              new |-> IF d.subs[r.id].exists THEN 0 ELSE 1,
              err |-> "ok", skip |-> {}]

\* The loop of stripe_api_update_subscriptions over page[i..], from the
\* tables d with created rows counted so far: [db, created, err, skipped].
RECURSIVE SyncLoop(_, _, _, _, _, _)
SyncLoop(acc, page, i, bm, createMap, ignore) ==
    IF i > Len(page) THEN acc
    ELSE CHOOSE res \in
            {IF s.err # "ok"
             THEN [db |-> acc.db, created |-> 0, err |-> s.err, skipped |-> {}]
             ELSE SyncLoop([db |-> s.db, created |-> acc.created + s.new,
                            err |-> "ok", skipped |-> acc.skipped \cup s.skip],
                           page, i + 1, bm, createMap, ignore)
             : s \in {SyncStep(acc.db, page[i], bm, createMap, ignore)}} : TRUE

\* stripe_api_update_subscriptions(test_data=page, ignore_new_user_creation_errors):
\* the whole call is one transaction, so a raised exception leaves db as it was.
stripe_api_update_subscriptions(d, c, page, ignore) ==
    LET bm == get_billing_model(c.billing)
    IN  IF bm = "ValueError"
        THEN [db |-> d, created |-> 0, err |-> "ValueError", skipped |-> {}]
        ELSE LET res == SyncLoop([db |-> d, created |-> 0, err |-> "ok", skipped |-> {}],
                                 page, 1, bm, c.createMap, ignore)
             IN  IF res.err # "ok" THEN [res EXCEPT !.db = d] ELSE res

\* The largest page size the bulk pulls accept.
MaxLimit == 100

\* Page sizes a caller may pass.
Limits == {0 - 1, 0, 1, MaxLimit, MaxLimit + 1}

\* The check of the limit argument at the head of both bulk pulls.
LimitRejected(limit) == limit < 0 \/ limit > MaxLimit

\* stripe_api_update_subscriptions(limit=..., test_data=page, ...): the limit
\* is checked before anything else.
stripe_api_update_subscriptions_limit(d, c, limit, page, ignore) ==
    IF LimitRejected(limit)
    THEN [db |-> d, created |-> 0, err |-> "ValueError", skipped |-> {}]
    ELSE stripe_api_update_subscriptions(d, c, page, ignore)

\* --------------------------------------------------------------- webhooks
\* _handle_customer_subscription_event_data(data): [db, err]. The handler
\* opens no transaction: what it wrote before an exception stays written.
handle_customer_subscription_event_data(d, c, r) ==
    LET linked == {u \in Users : d.su[u] = r.customer}
        bm == get_billing_model(c.billing)
        user == First(linked)
        ba == find_billing_account(d.acc, bm, r.customer, user)
        d1 == [d EXCEPT !.acc = update_billing_account_subscription(@, ba, r.customer, r.id)]
        d2 == UpsertSubscription(d1, r, user, ba)
        it == CreateItems(DeleteItems(d2.items, r.id), r.id, r.items, 1)
    IN  IF linked = {} THEN [db |-> d, err |-> "DoesNotExist"]
        ELSE IF Cardinality(linked) > 1 THEN [db |-> d, err |-> "MultipleObjectsReturned"]
        ELSE IF bm = "ValueError" THEN [db |-> d, err |-> "ValueError"]
        ELSE [db |-> [d2 EXCEPT !.items = it.items], err |-> it.err]

\* Owner metadata a checkout session, invoice or subscription may carry.
OrgRows == {1}
Metas == {[owner_type |-> "null", owner_id |-> 0],
          [owner_type |-> "User", owner_id |-> 1],
          [owner_type |-> "Org", owner_id |-> 1],
          [owner_type |-> "app.Missing", owner_id |-> 1]}

EventTypes == {"checkout.session.completed", "invoice.payment_succeeded",
               "customer.subscription.created", "customer.subscription.updated"}

\* Event payloads: type, the object's id, subscription and customer fields
\* and its metadata.
WebhookEvents ==
    {[type |-> t, id |-> s, subscription |-> "null", customer |-> SubCustomer[s], meta |-> m] :
        t \in {"customer.subscription.created", "customer.subscription.updated"},
        s \in SubIds, m \in Metas}
    \cup {[type |-> "checkout.session.completed", id |-> "cs1", subscription |-> x,
           customer |-> cu, meta |-> m] :
        x \in {"s1", "null"}, cu \in {"c1", "null"}, m \in Metas}
    \cup {[type |-> "invoice.payment_succeeded", id |-> "in1", subscription |-> x,
           customer |-> cu, meta |-> m] :
        x \in {"s2", "null"}, cu \in {"c2", "null"}, m \in Metas}
    \cup {[type |-> "customer.deleted", id |-> "c1", subscription |-> "null",
           customer |-> "null", meta |-> m] : m \in Metas}

\* The billing model as stripe_webhook resolves it: every exception is caught.
webhook_billing_model(path) ==
    IF path = <<>> THEN "none"
    ELSE IF GetModelTwoArgs(path) = "model" THEN "model"
    ELSE IF GetModelOneArg(path) = "model" THEN "model"
    ELSE "none"

\* owner_cls.objects.filter(pk=owner_id).first(): the owner's pk, 0 for None.
TargetOwner(d, owner_type, owner_id) ==
    IF owner_type = "User" THEN (IF d.users[owner_id] # "none" THEN owner_id ELSE 0)
    ELSE IF owner_type = "Org" THEN (IF owner_id \in OrgRows THEN owner_id ELSE 0)
    ELSE 0

\* The account stripe_webhook resolves from the metadata: by content type
\* and object id on a model with a generic relation and an existing owner,
\* otherwise by the pk of a foreign key named owner, user, organization or team.
webhook_account_by_metadata(d, c, m) ==
    IF m.owner_type = "null" \/ m.owner_id = 0 THEN 0
    \* a dotted owner type naming no model: get_model raises, ba = None
    ELSE IF m.owner_type = "app.Missing" THEN 0
    ELSE LET target == TargetOwner(d, m.owner_type, m.owner_id)
         IN  IF c.shape = "generic" /\ target # 0
             THEN First({a \in Accounts : d.acc[a].exists /\ d.acc[a].ownerCt = m.owner_type
                                          /\ d.acc[a].ownerId = target})
             ELSE IF c.shape = "fk"
             THEN First({a \in Accounts : d.acc[a].exists /\ d.acc[a].ownerId = m.owner_id})
             ELSE 0

\* A variant that goes on to process an event whose signature check failed.
SignatureRejected_never(ev) == FALSE

\* stripe.Webhook.construct_event raised.
SignatureRejected(ev) == ~ev.sigOk

\* A variant that treats every event type as one that carries a subscription.
Recognised_all(typ) == TRUE

\* The event types stripe_webhook looks into.
Recognised(typ) == typ \in EventTypes

\* subscription_id = obj.get("subscription") or obj.get("id").
webhook_subscription_id(e) == IF e.subscription # "null" THEN e.subscription ELSE e.id

\* A variant that looks the stored customer id up before the metadata.
webhook_billing_account_customer_first(d, c, e) ==
    LET bm == webhook_billing_model(c.billing)
        byCust == IF e.customer # "null"
                  THEN First({a \in Accounts : d.acc[a].exists /\ d.acc[a].cust = e.customer})
                  ELSE 0
    IN  IF bm # "model" THEN 0
        ELSE IF byCust # 0 THEN byCust
        ELSE webhook_account_by_metadata(d, c, e.meta)

\* The account (ba) stripe_webhook resolves for an event: by the owner
\* metadata first, by the stored customer id when that gave none; 0 for None.
webhook_billing_account(d, c, e) ==
    LET bm == webhook_billing_model(c.billing)
        byMeta == IF bm = "model" THEN webhook_account_by_metadata(d, c, e.meta) ELSE 0
    IN  IF bm # "model" THEN 0
        ELSE IF byMeta # 0 THEN byMeta
        ELSE IF e.customer # "null"
        THEN First({a \in Accounts : d.acc[a].exists /\ d.acc[a].cust = e.customer})
        ELSE 0

\* The accounts stripe_webhook calls save(update_fields=[...]) on.
stripe_webhook_saves(d, c, ev) ==
    IF ~SignatureRejected(ev) /\ Recognised(ev.event.type)
       /\ webhook_billing_account(d, c, ev.event) # 0
       /\ webhook_subscription_id(ev.event) # "null"
    THEN {webhook_billing_account(d, c, ev.event)} ELSE {}

\* stripe_webhook(request): [db, status, lookup]; lookup tells whether the
\* billing model was resolved (the first step after verification). A request
\* with saveOk false is one during which ba.save raises.
stripe_webhook(d, c, ev) ==
    IF SignatureRejected(ev) THEN [db |-> d, status |-> 400, lookup |-> FALSE]
    ELSE
    LET e == ev.event
        subscription_id == webhook_subscription_id(e)
        ba == webhook_billing_account(d, c, e)
    IN  IF Recognised(e.type) /\ ba # 0 /\ subscription_id # "null" /\ ev.saveOk
        THEN [db |-> [d EXCEPT !.acc[ba].sub = subscription_id], status |-> 200, lookup |-> TRUE]
        ELSE [db |-> d, status |-> 200, lookup |-> TRUE]

\* ---------------------------------------------------------- customer pull
\* Pages of stripe.Customer.list: up to MaxPage distinct customers that
\* exist on the provider side.
CustomerPages(rem) ==
    {p \in UNION {[1..n -> {x \in Customers : rem[x] # "none"}] : n \in 1..MaxPage} :
        \A i, j \in 1..Len(p) : i # j => p[i] # p[j]}

\* A variant that stores the customer id over one already there.
update_customers_billing_account_overwrite(acc, ba, cid) ==
    IF ba = 0 THEN acc ELSE [acc EXCEPT ![ba].cust = cid]

\* The billing-account update inside the loop of stripe_api_update_customers:
\* the customer id is stored only on an account found with an empty one.
update_customers_billing_account(acc, ba, cid) ==
    IF ba # 0 /\ acc[ba].cust = "null" THEN [acc EXCEPT ![ba].cust = cid] ELSE acc

\* The loop of stripe_api_update_customers over page[i..]: [db, err].
RECURSIVE CustomersLoop(_, _, _, _, _)
CustomersLoop(d, page, i, bm, createMap) ==
    IF i > Len(page) THEN [db |-> d, err |-> "ok"]
    ELSE
    LET cid == page[i]
        email == d.remote[cid]
        matching == {u \in Users : d.users[u] = email}
        n == NewUserId(d)
        \* get_or_create(email=..., defaults=...) with the attribute map,
        \* filter(email=...).first() without it
        user == IF matching # {} THEN First(matching)
                ELSE IF createMap THEN n ELSE 0
        d1 == IF matching = {} /\ createMap /\ n # 0
              THEN [d EXCEPT !.users[n] = email] ELSE d
        d2 == IF user # 0 /\ d1.su[user] = "norow"
              THEN [d1 EXCEPT !.su[user] = cid] ELSE d1
        ba == IF user # 0 THEN find_billing_account(d2.acc, bm, "null", user) ELSE 0
        d3 == [d2 EXCEPT !.acc = update_customers_billing_account(@, ba, cid)]
    IN  IF createMap /\ Cardinality(matching) > 1
        THEN [db |-> d, err |-> "MultipleObjectsReturned"]
        ELSE IF createMap /\ matching = {} /\ n = 0
        THEN [db |-> d, err |-> "bound"]
        ELSE CustomersLoop(d3, page, i + 1, bm, createMap)

\* stripe_api_update_customers(test_data=page): one transaction.
stripe_api_update_customers(d, c, page) ==
    LET bm == get_billing_model(c.billing)
    IN  IF bm = "ValueError" THEN [db |-> d, err |-> "ValueError"]
        ELSE LET res == CustomersLoop(d, page, 1, bm, c.createMap)
             IN  IF res.err # "ok" THEN [res EXCEPT !.db = d] ELSE res

\* stripe_api_update_customers(limit=..., test_data=page): the limit is
\* checked before anything else.
stripe_api_update_customers_limit(d, c, limit, page) ==
    IF LimitRejected(limit) THEN [db |-> d, err |-> "ValueError"]
    ELSE stripe_api_update_customers(d, c, page)

\* ------------------------------------------------------- legacy migration
\* The lowest unused account pk, 0 when the table is full.
NewAccountId(acc) == First({a \in Accounts : ~acc[a].exists})

\* The body of migrate_legacy_billing's loop for the StripeUser rows us[i..]:
\* [db, err]; err is "bound" when the account table of the model is full.
RECURSIVE MigrateLoop(_, _, _, _)
MigrateLoop(d, c, us, i) ==
    IF i > Len(us) THEN [db |-> d, err |-> "ok"]
    ELSE
    LET u == us[i]
        owned == {a \in Accounts : d.acc[a].exists /\ d.acc[a].ownerCt = "User"
                                   /\ d.acc[a].ownerId = u}
        n == NewAccountId(d.acc)
        ba == IF owned # {} THEN First(owned) ELSE n
        d1 == IF owned = {}
              THEN [d EXCEPT !.acc[n] = [exists |-> TRUE, cust |-> d.su[u], sub |-> "null",
                                         manager |-> 0, ownerCt |-> "User", ownerId |-> u]]
              ELSE d
        d2 == [d1 EXCEPT !.subs = [s \in SubIds |->
                  IF @[s].exists /\ @[s].stripe_user = u
                  THEN [@[s] EXCEPT !.ba_ct = TRUE, !.ba_id = ba] ELSE @[s]]]
    IN  \* get_or_create(content_type=..., object_id=...) raises on a model
        \* without those fields and when two rows match; the loop logs it and
        \* goes on with the next user
        IF c.shape # "generic" \/ Cardinality(owned) > 1
        THEN MigrateLoop(d, c, us, i + 1)
        ELSE IF owned = {} /\ n = 0 THEN [db |-> d, err |-> "bound"]
        ELSE MigrateLoop(d2, c, us, i + 1)

\* The StripeUser rows in pk order.
RECURSIVE SortedSeq(_)
SortedSeq(S) == IF S = {} THEN <<>> ELSE <<First(S)>> \o SortedSeq(S \ {First(S)})

\* Command.handle of migrate_legacy_billing: [db, err].
migrate_legacy_billing(d, c) ==
    IF c.billing = <<>> THEN [db |-> d, err |-> "ok"]
    ELSE IF GetModelTwoArgs(c.billing) # "model" THEN [db |-> d, err |-> "ok"]
    ELSE MigrateLoop(d, c, SortedSeq({u \in Users : d.su[u] # "norow"}), 1)

\* ------------------------------------------------------------ the system
Shapes == {"plain", "generic", "fk"}

\* The settings: BILLING_ACCOUNT_MODEL, whether USER_CREATE_DEFAULTS_ATTRIBUTE_MAP
\* is set, and the billing model's owner relation (none, a generic
\* content_type/object_id pair, or a foreign key named user).
Configs ==
    {c \in [billing : BillingPaths, createMap : BOOLEAN, shape : Shapes] :
        c.shape # "plain" => GetModelTwoArgs(c.billing) = "model"}

\* The rows the project created before the package runs: user 1, optionally
\* user 2, and two billing accounts with no Stripe ids yet.
InitAccounts(us, shape) ==
    [a \in Accounts |->
        IF a = 1
        THEN [exists |-> TRUE, cust |-> "null", sub |-> "null", manager |-> 1,
              ownerCt |-> IF shape = "plain" THEN "null" ELSE "User",
              ownerId |-> IF shape = "plain" THEN 0 ELSE 1]
        ELSE IF a = 2
        THEN [exists |-> TRUE, cust |-> "null", sub |-> "null",
              manager |-> IF us[2] # "none" THEN 2 ELSE 0,
              ownerCt |-> IF shape = "generic" THEN "Org" ELSE "null",
              ownerId |-> IF shape = "generic" THEN 1 ELSE 0]
        ELSE NoAccount]

\* ---------------------------------------------------------------- settings
\* The keys read from drf_stripe_settings.
SettingKeys ==
    {"DEFAULT_SUBSCRIPTION_QUANTITY", "FRONT_END_BASE_URL",
     "CHECKOUT_CANCEL_URL_PATH", "CUSTOMER_PORTAL_RETURN_URL_PATH"}

\* DEFAULTS, for the keys above that it holds.
DEFAULTS ==
    [k \in {"DEFAULT_SUBSCRIPTION_QUANTITY", "FRONT_END_BASE_URL", "CHECKOUT_CANCEL_URL_PATH"} |->
        IF k = "DEFAULT_SUBSCRIPTION_QUANTITY" THEN 1
        ELSE IF k = "FRONT_END_BASE_URL" THEN "http://localhost:3000"
        ELSE "manage-subscription"]

\* The value a project gives a key in DRF_STRIPE.
OverrideValue(k) ==
    IF k = "DEFAULT_SUBSCRIPTION_QUANTITY" THEN 5
    ELSE IF k = "FRONT_END_BASE_URL" THEN "https://example.com"
    ELSE IF k = "CHECKOUT_CANCEL_URL_PATH" THEN "billing/cancel"
    ELSE "billing/portal"

\* The DRF_STRIPE dictionaries of Django's settings: any of the keys, set.
SettingsDicts == {[k \in ks |-> OverrideValue(k)] : ks \in SUBSET SettingKeys}

\* The dictionary d with d[k] = v.
DictSet(d, k, v) == [x \in DOMAIN d \cup {k} |-> IF x = k THEN v ELSE d[x]]

\* DrfStripeSettings(USER_SETTINGS, DEFAULTS) at import, beside Django's
\* DRF_STRIPE: _user_settings is <<>> when the attribute is absent and
\* <<dict>> when present, cached_attrs holds the attributes set on the object.
DrfStripeSettings(django) ==
    [DRF_STRIPE |-> django, user_settings |-> <<django>>, cached_attrs |-> <<>>,
     read |-> "none"]

\* The user_settings property: _user_settings, fetched from Django's
\* settings when the attribute is absent.
user_settings(st) ==
    IF st.user_settings = <<>> THEN [st EXCEPT !.user_settings = <<st.DRF_STRIPE>>] ELSE st

\* drf_stripe_settings.<attr>: [st, err, val]. An attribute set on the
\* object is returned as it is; __getattr__ runs only when there is none.
getattr(st, attr) ==
    IF attr \in DOMAIN st.cached_attrs
    THEN [st |-> st, err |-> "ok", val |-> st.cached_attrs[attr]]
    ELSE IF attr \notin DOMAIN DEFAULTS
    THEN [st |-> st, err |-> "AttributeError", val |-> "none"]
    ELSE LET s1 == user_settings(st)
             us == s1.user_settings[1]
             val == IF attr \in DOMAIN us THEN us[attr] ELSE DEFAULTS[attr]
         IN  [st |-> [s1 EXCEPT !.cached_attrs = DictSet(@, attr, val)],
              err |-> "ok", val |-> val]

\* DrfStripeSettings.reload.
reload(st) == [st EXCEPT !.cached_attrs = <<>>, !.user_settings = <<>>]

\* reload_drf_stripe_settings, the receiver of setting_changed.
reload_drf_stripe_settings(st, setting) ==
    IF setting = "DRF_STRIPE" THEN reload(st) ELSE st

\* A request's local state: the user it runs for, whether its transaction
\* holds an uncommitted StripeUser row, the customer id of the StripeUser
\* instance in hand, how get_or_create ended and the customer id given to
\* the checkout session.
NoTxn == [user |-> 0, ins |-> FALSE, cust |-> "null", path |-> "none", sess |-> "none",
          data |-> <<>>, next |-> 0, ba |-> 0]

Idle == /\ pc = [p \in 1..NProc |-> "idle"]
        /\ txn = [p \in 1..NProc |-> NoTxn]

\* The initial states with user 2's row drawn from u2 and the settings from cs.
InitWith(u2, cs) ==
    /\ users \in {[u \in Users |-> IF u = 1 THEN "e1" ELSE e] : e \in u2}
    /\ stripeUser = [u \in Users |-> "norow"]
    /\ cfg \in cs
    /\ accounts = InitAccounts(users, cfg.shape)
    /\ subs = [s \in SubIds |-> NoSub]
    /\ items = [i \in ItemIds |-> NoItem]
    /\ remote \in {[c \in Customers |-> IF c = "c1" THEN "e1" ELSE IF c = "c2" THEN e ELSE "none"] :
                      e \in Emails}
    /\ last = "init"
    /\ Idle
    /\ drf_stripe_settings = DrfStripeSettings(<<>>)

Init == InitWith({"none"}, {c \in Configs : c.shape # "fk"})

InitWebhook == InitWith({"none", "e2"}, {c \in Configs : c.createMap})

InitLinks == InitWith({"none", "e2"}, {c \in Configs : c.shape = "plain"})

\* The tables and the provider become d; last names the call when it wrote.
Commit(op, d) ==
    /\ users' = d.users
    /\ stripeUser' = d.su
    /\ accounts' = d.acc
    /\ subs' = d.subs
    /\ items' = d.items
    /\ remote' = d.remote
    /\ last' = IF d = DB THEN last ELSE op
    /\ UNCHANGED <<cfg, pc, txn, drf_stripe_settings>>

\* One call of stripe_api_update_subscriptions.
SyncSubscriptions(page, ignore) ==
    \E r \in {stripe_api_update_subscriptions(DB, cfg, page, ignore)} :
        r.err # "bound" /\ Commit("sync", r.db)

\* One subscription-created or -updated event handled.
HandleSubscriptionEvent(r) ==
    Commit("event", handle_customer_subscription_event_data(DB, cfg, r).db)

\* One request to the stripe_webhook view; last tells when it was answered
\* with 400.
StripeWebhook(ev) ==
    \E o \in {stripe_webhook(DB, cfg, ev)} :
        /\ users' = o.db.users
        /\ stripeUser' = o.db.su
        /\ accounts' = o.db.acc
        /\ subs' = o.db.subs
        /\ items' = o.db.items
        /\ remote' = o.db.remote
        /\ last' = IF o.status = 400 THEN "rejected"
                   ELSE IF o.db = DB THEN last ELSE "webhook"
        /\ UNCHANGED <<cfg, pc, txn, drf_stripe_settings>>

\* One call of stripe_api_update_customers.
UpdateCustomers(page) ==
    LET o == stripe_api_update_customers(DB, cfg, page)
    IN  o.err # "bound" /\ Commit("customers", o.db)

\* get_or_create_stripe_user(user_id=u).
GetOrCreateByUserId(u) ==
    LET o == get_or_create_stripe_user_from_user_id(DB, u)
    IN  o.err # "bound" /\ Commit("by_user_id", o.db)

\* get_or_create_stripe_user(customer_id=c).
GetOrCreateByCustomerId(c) ==
    LET o == get_or_create_stripe_user_from_customer_id(DB, cfg.createMap, c)
    IN  o.err # "bound" /\ Commit("by_customer_id", o.db)

\* The customer record the provider holds for c.
RemoteCustomer(rem, c) == [id |-> c, email |-> rem[c]]

\* get_or_create_stripe_user_from_customer(customer).
GetOrCreateFromCustomer(c) ==
    LET o == get_or_create_stripe_user_from_customer(DB, cfg.createMap,
                                                     RemoteCustomer(remote, c))
    IN  remote[c] # "none" /\ o.err # "bound" /\ Commit("from_customer", o.db)

\* One run of the migrate_legacy_billing command.
MigrateLegacyBilling ==
    LET o == migrate_legacy_billing(DB, cfg)
    IN  o.err # "bound" /\ Commit("migrate", o.db)

\* Requests to stripe_webhook: whether the signature verifies, whether the
\* account row can be saved, and the event.
WebhookRequests ==
    {q \in [sigOk : BOOLEAN, saveOk : BOOLEAN, event : WebhookEvents] :
        ~q.sigOk => q.saveOk}

Next ==
    \/ \E page \in SubPages, ignore \in BOOLEAN : SyncSubscriptions(page, ignore)
    \/ \E r \in RemoteSubs : HandleSubscriptionEvent(r)
    \/ \E page \in CustomerPages(remote) : UpdateCustomers(page)
    \/ MigrateLegacyBilling

Spec == Init /\ [][Next]_vars

\* The webhook endpoints, with the customer pull that links users and accounts.
NextWebhook ==
    \/ \E r \in RemoteSubs : HandleSubscriptionEvent(r)
    \/ \E ev \in WebhookRequests : StripeWebhook(ev)
    \/ \E page \in CustomerPages(remote) : UpdateCustomers(page)

SpecWebhook == InitWebhook /\ [][NextWebhook]_vars

\* The entry points that resolve a StripeUser.
NextLinks ==
    \/ \E u \in Users : GetOrCreateByUserId(u)
    \/ \E c \in Customers : GetOrCreateByCustomerId(c)
    \/ \E c \in Customers : GetOrCreateFromCustomer(c)
    \/ \E page \in CustomerPages(remote) : UpdateCustomers(page)

SpecLinks == InitLinks /\ [][NextLinks]_vars

\* The provider's customer c gets another e-mail address; the next
\* stripe.Customer.list or retrieve returns it.
CustomerEmailChanges(c, e) ==
    /\ remote[c] \notin {"none", e}
    /\ remote' = [remote EXCEPT ![c] = e]
    /\ UNCHANGED <<users, stripeUser, accounts, subs, items, cfg, last, pc, txn,
                   drf_stripe_settings>>

\* Local users may share an e-mail address: the user model's email field is
\* not unique.
InitCustomers == InitWith({"none", "e1", "e2"}, {c \in Configs : c.shape = "plain"})

\* The entry points that resolve a StripeUser, with customers whose e-mail
\* changes on the provider side.
NextCustomers ==
    \/ NextLinks
    \/ \E c \in Customers, e \in Emails : CustomerEmailChanges(c, e)

SpecCustomers == InitCustomers /\ [][NextCustomers]_vars

\* ------------------------------------------------- concurrent checkout
\* Requests to the checkout endpoint running at once, each in its own
\* database connection under READ COMMITTED: a row written inside an
\* atomic block is seen by the others only after the block is left, and an
\* insert of a key another open transaction has inserted waits for it.
Procs == 1..NProc

\* A variant in which get_or_create_stripe_user opens no transaction, so
\* every write is committed at once.
get_or_create_stripe_user_autocommit == FALSE

\* The @atomic() decorator of get_or_create_stripe_user.
get_or_create_stripe_user_atomic == TRUE

\* CheckoutRequestSerializer.validate enters the legacy flow for user u and
\* get_or_create_stripe_user(user_id=u) opens its transaction.
CheckoutBegin(p, u) ==
    /\ pc[p] = "idle"
    /\ users[u] # "none"
    /\ webhook_billing_model(cfg.billing) # "model"
    /\ pc' = [pc EXCEPT ![p] = "get"]
    /\ txn' = [txn EXCEPT ![p].user = u]
    /\ UNCHANGED <<dbvars, cfg, last, drf_stripe_settings>>

\* get_or_create: the SELECT for the user's row.
LinkGet(p) ==
    /\ pc[p] = "get"
    /\ IF stripeUser[txn[p].user] # "norow"
       THEN /\ txn' = [txn EXCEPT ![p].cust = stripeUser[txn[p].user], ![p].path = "found"]
            /\ pc' = [pc EXCEPT ![p] = "return"]
       ELSE /\ pc' = [pc EXCEPT ![p] = "insert"]
            /\ UNCHANGED txn
    /\ UNCHANGED <<dbvars, cfg, last, drf_stripe_settings>>

\* get_or_create: the INSERT with empty defaults. It waits while another
\* open transaction holds an uncommitted row for the user and fails with
\* IntegrityError once a row for the user is committed.
LinkInsert(p) ==
    /\ pc[p] = "insert"
    /\ \A q \in Procs \ {p} : ~(txn[q].ins /\ txn[q].user = txn[p].user)
    /\ IF stripeUser[txn[p].user] # "norow"
       THEN /\ pc' = [pc EXCEPT ![p] = "reget"]
            /\ UNCHANGED <<txn, stripeUser>>
       ELSE /\ pc' = [pc EXCEPT ![p] = "customer"]
            /\ IF get_or_create_stripe_user_atomic
               THEN /\ txn' = [txn EXCEPT ![p].ins = TRUE, ![p].path = "created"]
                    /\ UNCHANGED stripeUser
               ELSE /\ txn' = [txn EXCEPT ![p].path = "created"]
                    /\ stripeUser' = [stripeUser EXCEPT ![txn[p].user] = "null"]
    /\ UNCHANGED <<users, accounts, subs, items, remote, cfg, last, drf_stripe_settings>>

\* get_or_create: the SELECT after IntegrityError; DoesNotExist when no
\* committed row is visible.
LinkReget(p) ==
    /\ pc[p] = "reget"
    /\ IF stripeUser[txn[p].user] # "norow"
       THEN /\ txn' = [txn EXCEPT ![p].cust = stripeUser[txn[p].user], ![p].path = "conflict"]
            /\ pc' = [pc EXCEPT ![p] = "return"]
       ELSE /\ pc' = [pc EXCEPT ![p] = "failed"]
            /\ UNCHANGED txn
    /\ UNCHANGED <<dbvars, cfg, last, drf_stripe_settings>>

\* The creator of the row finds or creates the remote customer.
LinkCustomer(p) ==
    /\ pc[p] = "customer"
    /\ \E c \in {stripe_api_get_or_create_customer_from_email(remote, users[txn[p].user])} :
          /\ c.id # "bound"
          /\ remote' = c.remote
          /\ txn' = [txn EXCEPT ![p].cust = c.id]
    /\ pc' = [pc EXCEPT ![p] = "save"]
    /\ UNCHANGED <<users, stripeUser, accounts, subs, items, cfg, last, drf_stripe_settings>>

\* stripe_user.save() with the customer id.
LinkSave(p) ==
    /\ pc[p] = "save"
    /\ IF get_or_create_stripe_user_atomic
       THEN UNCHANGED stripeUser
       ELSE stripeUser' = [stripeUser EXCEPT ![txn[p].user] = txn[p].cust]
    /\ pc' = [pc EXCEPT ![p] = "return"]
    /\ UNCHANGED <<users, accounts, subs, items, remote, cfg, last, txn, drf_stripe_settings>>

\* get_or_create_stripe_user returns: the atomic block commits its row.
LinkReturn(p) ==
    /\ pc[p] = "return"
    /\ IF txn[p].ins
       THEN /\ stripeUser' = [stripeUser EXCEPT ![txn[p].user] = txn[p].cust]
            /\ txn' = [txn EXCEPT ![p].ins = FALSE]
       ELSE UNCHANGED <<stripeUser, txn>>
    /\ pc' = [pc EXCEPT ![p] = "session"]
    /\ UNCHANGED <<users, accounts, subs, items, remote, cfg, last, drf_stripe_settings>>

\* The checkout session is created with stripe_user.customer_id.
CheckoutSession(p) ==
    /\ pc[p] = "session"
    /\ txn' = [txn EXCEPT ![p].sess = txn[p].cust]
    /\ pc' = [pc EXCEPT ![p] = "done"]
    /\ UNCHANGED <<dbvars, cfg, last, drf_stripe_settings>>

\* Users 1 and 2 exist with no StripeUser row; the provider holds a customer
\* for user 1's e-mail or none at all; the legacy flow is configured.
InitRace ==
    /\ users = [u \in Users |-> IF u = 1 THEN "e1" ELSE "e2"]
    /\ stripeUser = [u \in Users |-> "norow"]
    /\ cfg \in {c \in Configs : c.shape = "plain" /\ ~c.createMap
                                /\ webhook_billing_model(c.billing) # "model"}
    /\ accounts = InitAccounts(users, cfg.shape)
    /\ subs = [s \in SubIds |-> NoSub]
    /\ items = [i \in ItemIds |-> NoItem]
    /\ remote \in {[c \in Customers |-> IF c = "c1" THEN e ELSE "none"] : e \in {"e1", "none"}}
    /\ last = "init"
    /\ Idle
    /\ drf_stripe_settings = DrfStripeSettings(<<>>)

NextRace ==
    \E p \in Procs :
        \/ \E u \in Users : CheckoutBegin(p, u)
        \/ LinkGet(p)
        \/ LinkInsert(p)
        \/ LinkReget(p)
        \/ LinkCustomer(p)
        \/ LinkSave(p)
        \/ LinkReturn(p)
        \/ CheckoutSession(p)

SpecRace == InitRace /\ [][NextRace]_vars

\* ---------------------------------------------------------------- checkout
\* owner_type and owner_id of a checkout request; "null" and 0 when not given.
CheckoutOwners ==
    {[owner_type |-> "null", owner_id |-> 0], [owner_type |-> "User", owner_id |-> 0],
     [owner_type |-> "app.Missing", owner_id |-> 1], [owner_type |-> "Nope", owner_id |-> 1]}
    \cup {[owner_type |-> t, owner_id |-> i] : t \in {"User", "Org"}, i \in Users}

\* A request to CheckoutRequestSerializer.validate: the authenticated user,
\* the owner fields, how the call of stripe_api_create_checkout_session
\* ends, which provider call fails, and the seats attribute of the billing
\* account instance (0 when it has none).
CheckoutRequests ==
    [user : Users, owner : CheckoutOwners,
     helper : {"ok", "TypeError", "StripeError", "Exception"},
     provider : {"ok", "customer_fails", "session_fails"},
     seats : 0..MaxQty]

\* An exception: its class and, for a ValidationError, what it reports.
Exc(type, kind) == [type |-> type, kind |-> kind]
NoExc == Exc("none", "none")

\* No checkout session was requested.
NoSession == [via |-> "none", customer |-> "null", quantity |-> 0]

\* What validate ends with: the tables, the exception raised, the session
\* requested and whether stripe.Customer.create was called.
CheckoutResult(d, e, sess, created) ==
    [db |-> d, exc |-> e, session |-> sess, customerCreated |-> created]

\* A variant that lets every exception of the billing branch through.
WrapBillingError_reraise(e) == e

\* The except clauses that close the billing branch: a ValidationError is
\* raised again, any other exception becomes one.
WrapBillingError(e) ==
    IF e.type \in {"none", "ValidationError"} THEN e
    ELSE Exc("ValidationError", "Failed to resolve billing account")

\* The owner object of the request: [exc, type, pk].
checkout_owner(d, q) ==
    IF q.owner.owner_type = "null" \/ q.owner.owner_id = 0
    THEN [exc |-> NoExc, type |-> "User", pk |-> q.user]
    ELSE IF q.owner.owner_type = "app.Missing"
    THEN [exc |-> Exc("LookupError", "none"), type |-> "null", pk |-> 0]
    ELSE IF q.owner.owner_type \notin {"User", "Org"}
    THEN [exc |-> Exc("ValidationError", "Unknown owner_type"), type |-> "null", pk |-> 0]
    ELSE IF TargetOwner(d, q.owner.owner_type, q.owner.owner_id) = 0
    THEN [exc |-> Exc("DoesNotExist", "none"), type |-> "null", pk |-> 0]
    ELSE [exc |-> NoExc, type |-> q.owner.owner_type, pk |-> q.owner.owner_id]

\* The row BillingModel.objects.get_or_create makes for an owner.
NewAccount(ct, pk) ==
    [exists |-> TRUE, cust |-> "null", sub |-> "null", manager |-> 0,
     ownerCt |-> ct, ownerId |-> pk]

\* The billing account instance of the owner, found or created: [acc, ba,
\* exc]. On a model with a generic relation get_or_create is keyed by
\* content type and object id, on one with a foreign key named user by the
\* owner, and otherwise by the owner's pk as the account's pk.
checkout_billing_account(acc, shape, type, pk) ==
    LET matches == {a \in Accounts : acc[a].exists /\ acc[a].ownerCt = type
                                      /\ acc[a].ownerId = pk}
        n == NewAccountId(acc)
    IN  IF shape = "plain"
        THEN IF acc[pk].exists THEN [acc |-> acc, ba |-> pk, exc |-> NoExc]
             ELSE [acc |-> [acc EXCEPT ![pk] = NewAccount("null", 0)], ba |-> pk, exc |-> NoExc]
        ELSE IF shape = "fk" /\ type # "User"
        THEN [acc |-> acc, ba |-> 0, exc |-> Exc("ValueError", "none")]
        ELSE IF Cardinality(matches) > 1
        THEN [acc |-> acc, ba |-> 0, exc |-> Exc("MultipleObjectsReturned", "none")]
        ELSE IF matches # {} THEN [acc |-> acc, ba |-> First(matches), exc |-> NoExc]
        ELSE IF n = 0 THEN [acc |-> acc, ba |-> 0, exc |-> Exc("bound", "none")]
        ELSE [acc |-> [acc EXCEPT ![n] = NewAccount(type, pk)], ba |-> n, exc |-> NoExc]

\* AbstractBillingAccount.can_manage_billing.
can_manage_billing(acc, ba, user) ==
    IF acc[ba].manager = 0 THEN FALSE ELSE user = acc[ba].manager

\* AbstractBillingAccount.get_or_create_stripe_customer: [db, customer,
\* exc, created]; the stored id when there is one, a new customer otherwise.
get_or_create_stripe_customer(d, ba, email, provider) ==
    LET n == NewCustomerId(d.remote)
    IN  IF d.acc[ba].cust # "null"
        THEN [db |-> d, customer |-> d.acc[ba].cust, exc |-> NoExc, created |-> FALSE]
        ELSE IF provider = "customer_fails"
        THEN [db |-> d, customer |-> "null", exc |-> Exc("StripeError", "none"), created |-> FALSE]
        ELSE IF n = "bound"
        THEN [db |-> d, customer |-> "null", exc |-> Exc("bound", "none"), created |-> FALSE]
        ELSE [db |-> [d EXCEPT !.remote[n] = email, !.acc[ba].cust = n],
              customer |-> n, exc |-> NoExc, created |-> TRUE]

\* The billing branch of validate up to the customer id: [db, ba, customer,
\* exc, created]. Each write is committed as it is made.
checkout_billing_customer(d, c, q) ==
    LET o == checkout_owner(d, q)
        b == checkout_billing_account(d.acc, c.shape, o.type, o.pk)
        d1 == [d EXCEPT !.acc = b.acc]
        g == get_or_create_stripe_customer(d1, b.ba, d.users[q.user], q.provider)
    IN  IF o.exc # NoExc
        THEN [db |-> d, ba |-> 0, customer |-> "null", exc |-> o.exc, created |-> FALSE]
        ELSE IF b.exc # NoExc
        THEN [db |-> d, ba |-> 0, customer |-> "null", exc |-> b.exc, created |-> FALSE]
        ELSE IF ~can_manage_billing(d1.acc, b.ba, q.user)
        THEN [db |-> d1, ba |-> b.ba, customer |-> "null",
              exc |-> Exc("ValidationError", "User is not authorized"), created |-> FALSE]
        ELSE [db |-> g.db, ba |-> b.ba, customer |-> g.customer, exc |-> g.exc,
              created |-> g.created]

\* The legacy branch of validate: get_or_create_stripe_user(user_id=...).
checkout_legacy_customer(d, q) ==
    LET o == get_or_create_stripe_user_from_user_id(d, q.user)
    IN  IF o.err = "bound"
        THEN [db |-> d, ba |-> 0, customer |-> "null", exc |-> Exc("bound", "none"),
              created |-> FALSE]
        ELSE IF o.err # "ok"
        THEN [db |-> d, ba |-> 0, customer |-> "null",
              exc |-> Exc("ValidationError", "Failed to resolve legacy Stripe user"),
              created |-> FALSE]
        ELSE [db |-> o.db, ba |-> 0, customer |-> o.db.su[q.user], exc |-> NoExc,
              created |-> o.db.remote # d.remote]

\* The quantity of the line item validate builds itself.
SessionQuantity(ba, seats) == IF ba # 0 /\ seats # 0 THEN seats ELSE 1

\* The last part of validate: the session from the package helper, or from
\* stripe.checkout.Session.create when the helper raises TypeError:
\* [session, exc]. The helper is given the customer and the price only.
checkout_session(customer, ba, q) ==
    IF q.helper = "ok"
    THEN [session |-> [via |-> "helper", customer |-> customer, quantity |-> 0], exc |-> NoExc]
    ELSE IF q.helper = "StripeError"
    THEN [session |-> NoSession, exc |-> Exc("ValidationError", "provider error")]
    ELSE IF q.helper = "Exception"
    THEN [session |-> NoSession, exc |-> Exc("ValidationError", "exception text")]
    ELSE IF q.provider = "session_fails"
    THEN [session |-> NoSession, exc |-> Exc("ValidationError", "provider error")]
    ELSE [session |-> [via |-> "fallback", customer |-> customer,
                       quantity |-> SessionQuantity(ba, q.seats)],
          exc |-> NoExc]

\* CheckoutRequestSerializer.validate.
checkout_validate(d, c, q) ==
    CHOOSE res \in
        {IF r.exc.type = "bound" THEN CheckoutResult(d, r.exc, NoSession, FALSE)
         ELSE IF r.exc # NoExc
         THEN CheckoutResult(r.db, WrapBillingError(r.exc), NoSession, r.created)
         ELSE LET cs == checkout_session(r.customer, r.ba, q)
              IN  CheckoutResult(r.db, cs.exc, cs.session, r.created)
         : r \in {IF webhook_billing_model(c.billing) = "model"
                  THEN checkout_billing_customer(d, c, q)
                  ELSE checkout_legacy_customer(d, q)}} : TRUE

\* One request to the checkout endpoint by an existing user.
Checkout(q) ==
    /\ users[q.user] # "none"
    /\ \E o \in {checkout_validate(DB, cfg, q)} :
          o.exc.type # "bound" /\ Commit("checkout", o.db)

\* The project's settings may override DEFAULT_SUBSCRIPTION_QUANTITY.
InitCheckout ==
    /\ users \in {[u \in Users |-> IF u = 1 THEN "e1" ELSE e] : e \in {"none", "e2"}}
    /\ stripeUser = [u \in Users |-> "norow"]
    /\ cfg \in Configs
    /\ accounts = InitAccounts(users, cfg.shape)
    /\ subs = [s \in SubIds |-> NoSub]
    /\ items = [i \in ItemIds |-> NoItem]
    /\ remote \in {[c \in Customers |-> IF c = "c1" THEN "e1" ELSE "none"]}
    /\ last = "init"
    /\ Idle
    /\ drf_stripe_settings \in
          {DrfStripeSettings(dj) : dj \in {x \in SettingsDicts :
                                             DOMAIN x \subseteq {"DEFAULT_SUBSCRIPTION_QUANTITY"}}}

NextCheckout ==
    \/ \E q \in CheckoutRequests : Checkout(q)
    \/ \E page \in CustomerPages(remote) : UpdateCustomers(page)

SpecCheckout == InitCheckout /\ [][NextCheckout]_vars

\* --------------------------------------------------------- settings reads
\* override_settings(DRF_STRIPE=d), on entry and on exit: Django's setting
\* changes and setting_changed is sent.
OverrideSettings(d) ==
    /\ d # drf_stripe_settings.DRF_STRIPE
    /\ drf_stripe_settings' =
          reload_drf_stripe_settings([drf_stripe_settings EXCEPT !.DRF_STRIPE = d],
                                     "DRF_STRIPE")
    /\ UNCHANGED <<dbvars, cfg, last, pc, txn>>

\* setting_changed for another setting of the project.
OtherSettingChanged ==
    /\ drf_stripe_settings' =
          reload_drf_stripe_settings(drf_stripe_settings, "DEBUG")
    /\ UNCHANGED <<dbvars, cfg, last, pc, txn>>

\* drf_stripe_settings.reload() called by the project.
ReloadSettings ==
    /\ drf_stripe_settings' = reload(drf_stripe_settings)
    /\ UNCHANGED <<dbvars, cfg, last, pc, txn>>

\* One read of drf_stripe_settings.<attr>; read keeps the key and whether
\* it raised.
ReadSetting(attr) ==
    /\ \E r \in {getattr(drf_stripe_settings, attr)} :
          drf_stripe_settings' = [r.st EXCEPT !.read = <<attr, r.err>>]
    /\ UNCHANGED <<dbvars, cfg, last, pc, txn>>

InitSettings ==
    InitWith({"none"}, {c \in Configs : c.billing = <<>> /\ c.shape = "plain" /\ c.createMap})

NextSettings ==
    \/ \E d \in SettingsDicts : OverrideSettings(d)
    \/ OtherSettingChanged
    \/ ReloadSettings
    \/ \E attr \in SettingKeys : ReadSetting(attr)

SpecSettings == InitSettings /\ [][NextSettings]_vars

\* ------------------------------------------------ concurrent item updates
\* Event handlers for subscription records running at once. The handler
\* opens no transaction, so each statement is committed as it is executed:
\* the delete of the subscription's items, then one update_or_create for
\* each item of the record. txn[p].data holds the record as <<r>> and
\* txn[p].next the index of the item to write.
ItemsBegin(p, r) ==
    /\ pc[p] = "idle"
    /\ pc' = [pc EXCEPT ![p] = "items_delete"]
    /\ txn' = [txn EXCEPT ![p].data = <<r>>]
    /\ UNCHANGED <<dbvars, cfg, last, drf_stripe_settings>>

\* subscription.items.all().delete().
ItemsDelete(p) ==
    /\ pc[p] = "items_delete"
    /\ items' = DeleteItems(items, txn[p].data[1].id)
    /\ pc' = [pc EXCEPT ![p] = "items_create"]
    /\ txn' = [txn EXCEPT ![p].next = 1]
    /\ UNCHANGED <<users, stripeUser, accounts, subs, remote, cfg, last, drf_stripe_settings>>

\* One pass of the loop of _create_subscription_items; the handler ends
\* after the last item and when update_or_create raises.
ItemsCreate(p) ==
    /\ pc[p] = "items_create"
    /\ LET r == txn[p].data[1]
           i == txn[p].next
       IN  IF i > Len(r.items)
           THEN /\ pc' = [pc EXCEPT ![p] = "items_done"]
                /\ UNCHANGED <<items, txn>>
           ELSE IF r.items[i].price \notin Prices
           THEN /\ pc' = [pc EXCEPT ![p] = "items_failed"]
                /\ UNCHANGED <<items, txn>>
           ELSE /\ items' = CreateItems(items, r.id, <<r.items[i]>>, 1).items
                /\ txn' = [txn EXCEPT ![p].next = i + 1]
                /\ UNCHANGED pc
    /\ UNCHANGED <<users, stripeUser, accounts, subs, remote, cfg, last, drf_stripe_settings>>

\* The rows of subscription_id in the item table its.
ItemsOf(its, subscription_id) ==
    {[id |-> i, price |-> its[i].price, quantity |-> its[i].quantity] :
        i \in {x \in ItemIds : its[x].exists /\ its[x].sub = subscription_id}}

\* The items of the record r as a set.
ItemSet(r) == {r.items[j] : j \in 1..Len(r.items)}

InitItems ==
    InitWith({"none"}, {c \in Configs : c.billing = <<>> /\ c.shape = "plain" /\ c.createMap})

NextItems ==
    \E p \in Procs :
        \/ \E r \in RemoteSubs : ItemsBegin(p, r)
        \/ ItemsDelete(p)
        \/ ItemsCreate(p)

SpecItems == InitItems /\ [][NextItems]_vars

\* ------------------------------------------- concurrent account customers
\* Checkout requests of the account's manager running at once in
\* billing-account mode. validate opens no transaction; each request holds
\* its own instance of the account row, read when the request resolved it.
\* txn[p].ba is the account, txn[p].cust the stripe_customer_id of the
\* instance, txn[p].sess the id get_or_create_stripe_customer returned.
AccountBegin(p, a) ==
    /\ pc[p] = "idle"
    /\ accounts[a].exists /\ accounts[a].manager # 0
    /\ pc' = [pc EXCEPT ![p] = "customer_check"]
    /\ txn' = [txn EXCEPT ![p].ba = a, ![p].user = accounts[a].manager,
                          ![p].cust = accounts[a].cust]
    /\ UNCHANGED <<dbvars, cfg, last, drf_stripe_settings>>

\* if self.stripe_customer_id: return self.stripe_customer_id.
AccountCheck(p) ==
    /\ pc[p] = "customer_check"
    /\ IF txn[p].cust # "null"
       THEN /\ pc' = [pc EXCEPT ![p] = "customer_done"]
            /\ txn' = [txn EXCEPT ![p].sess = txn[p].cust, ![p].path = "found"]
       ELSE /\ pc' = [pc EXCEPT ![p] = "customer_create"]
            /\ UNCHANGED txn
    /\ UNCHANGED <<dbvars, cfg, last, drf_stripe_settings>>

\* stripe_module.Customer.create(metadata=..., email=...).
AccountCreate(p) ==
    /\ pc[p] = "customer_create"
    /\ NewCustomerId(remote) # "bound"
    /\ remote' = [remote EXCEPT ![NewCustomerId(remote)] = users[txn[p].user]]
    /\ txn' = [txn EXCEPT ![p].cust = NewCustomerId(remote), ![p].path = "created"]
    /\ pc' = [pc EXCEPT ![p] = "customer_save"]
    /\ UNCHANGED <<users, stripeUser, accounts, subs, items, cfg, last, drf_stripe_settings>>

\* self.save(update_fields=["stripe_customer_id"]) and the return.
AccountSave(p) ==
    /\ pc[p] = "customer_save"
    /\ accounts' = [accounts EXCEPT ![txn[p].ba].cust = txn[p].cust]
    /\ txn' = [txn EXCEPT ![p].sess = txn[p].cust]
    /\ pc' = [pc EXCEPT ![p] = "customer_done"]
    /\ UNCHANGED <<users, stripeUser, subs, items, remote, cfg, last, drf_stripe_settings>>

\* The next request on the connection.
AccountNext(p) ==
    /\ pc[p] = "customer_done"
    /\ pc' = [pc EXCEPT ![p] = "idle"]
    /\ txn' = [txn EXCEPT ![p] = NoTxn]
    /\ UNCHANGED <<dbvars, cfg, last, drf_stripe_settings>>

\* The billing model is resolved and no account has a customer yet.
InitAccountRace ==
    /\ users \in {[u \in Users |-> IF u = 1 THEN "e1" ELSE e] : e \in {"none", "e2"}}
    /\ stripeUser = [u \in Users |-> "norow"]
    /\ cfg \in {c \in Configs : webhook_billing_model(c.billing) = "model"}
    /\ accounts = InitAccounts(users, cfg.shape)
    /\ subs = [s \in SubIds |-> NoSub]
    /\ items = [i \in ItemIds |-> NoItem]
    /\ remote = [c \in Customers |-> "none"]
    /\ last = "init"
    /\ Idle
    /\ drf_stripe_settings = DrfStripeSettings(<<>>)

NextAccountRace ==
    \E p \in Procs :
        \/ \E a \in Accounts : AccountBegin(p, a)
        \/ AccountCheck(p)
        \/ AccountCreate(p)
        \/ AccountSave(p)
        \/ AccountNext(p)

SpecAccountRace == InitAccountRace /\ [][NextAccountRace]_vars

\* ------------------------------------------------------------- properties

\* C1: with the billing model resolved, when the bulk pull or the event
\* handler processes subscription r of a customer whose linked user manages
\* account b, and b stores no customer id and no subscription id (so no
\* account matches the customer), then b afterwards stores the customer id
\* and the subscription id and the Subscription row references b.
C1_ManagerAccountLinked ==
    \A r \in RemoteSubs, u \in Users, b \in Accounts :
        (/\ get_billing_model(cfg.billing) = "model"
         /\ stripeUser[u] = r.customer
         /\ \A v \in Users : stripeUser[v] = r.customer => v = u
         /\ accounts[b].exists /\ accounts[b].manager = u
         /\ accounts[b].cust = "null" /\ accounts[b].sub = "null"
         /\ \A a \in Accounts : accounts[a].exists /\ accounts[a].manager = u => a = b
         /\ \A a \in Accounts : ~(accounts[a].exists /\ accounts[a].cust = r.customer))
        => \A o \in {stripe_api_update_subscriptions(DB, cfg, <<r>>, FALSE),
                     handle_customer_subscription_event_data(DB, cfg, r)} :
              o.err = "ok" => /\ o.db.acc[b].cust = r.customer
                              /\ o.db.acc[b].sub = r.id
                              /\ o.db.subs[r.id].ba_ct
                              /\ o.db.subs[r.id].ba_id = b

\* C2: find_billing_account returns an account that stores the customer id
\* whenever there is one, otherwise an account managed by the user when
\* there is one, and none when neither lookup matches or no billing model
\* is configured.
C2_ResolutionOrder ==
    \A customer_id \in Customers \cup {"null"}, user \in Users \cup {0} :
        LET bm == get_billing_model(cfg.billing)
            res == find_billing_account(accounts, bm, customer_id, user)
            byCustomer == {a \in Accounts : /\ customer_id # "null"
                                            /\ accounts[a].exists
                                            /\ accounts[a].cust = customer_id}
            byManager == {a \in Accounts : /\ user # 0
                                           /\ accounts[a].exists
                                           /\ accounts[a].manager = user}
        IN  /\ bm = "none" => res = 0
            /\ bm = "model" =>
                  IF byCustomer # {} THEN res \in byCustomer
                  ELSE IF byManager # {} THEN res \in byManager
                  ELSE res = 0

\* C3: with BILLING_ACCOUNT_MODEL unset or naming no installed model, the
\* bulk pulls, the event handler and stripe_webhook never raise because of
\* the setting, touch no billing-account row, and the Subscription rows a
\* bulk pull writes carry the legacy owner and empty billing-account fields.
C3_UnresolvedModelIsLegacy ==
    (cfg.billing = <<>> \/ cfg.billing \notin InstalledModels) =>
        /\ \A page \in SubPages :
              \A o \in {stripe_api_update_subscriptions(DB, cfg, page, FALSE)} :
                 /\ o.err # "ValueError"
                 /\ o.db.acc = accounts
                 /\ o.err = "ok" =>
                       \A i \in 1..Len(page) :
                          /\ o.db.subs[page[i].id].stripe_user # 0
                          /\ ~o.db.subs[page[i].id].ba_ct
                          /\ o.db.subs[page[i].id].ba_id = 0
        /\ \A r \in RemoteSubs :
              \A h \in {handle_customer_subscription_event_data(DB, cfg, r)} :
                 h.err # "ValueError" /\ h.db.acc = accounts
        /\ \A page \in CustomerPages(remote) :
              \A o \in {stripe_api_update_customers(DB, cfg, page)} :
                 o.err # "ValueError" /\ o.db.acc = accounts
        /\ \A q \in WebhookRequests : stripe_webhook(DB, cfg, q).db.acc = accounts

\* C4: a bulk pull of a page that succeeded, run again on the same page,
\* changes nothing and reports no created subscription; after it each
\* subscription of the page has one row and exactly the line items of the
\* remote list, with their prices and quantities.
C4_SyncIdempotent ==
    \A page \in SubPages, ignore \in BOOLEAN :
        \A o \in {stripe_api_update_subscriptions(DB, cfg, page, ignore)} :
            o.err = "ok" =>
                /\ \A i \in 1..Len(page) :
                      page[i].id \notin o.skipped =>
                          /\ o.db.subs[page[i].id].exists
                          /\ {[id |-> x, price |-> o.db.items[x].price,
                               quantity |-> o.db.items[x].quantity] :
                                 x \in {y \in ItemIds : /\ o.db.items[y].exists
                                                        /\ o.db.items[y].sub = page[i].id}}
                             = {page[i].items[j] : j \in 1..Len(page[i].items)}
                /\ \A o2 \in {stripe_api_update_subscriptions(o.db, cfg, page, ignore)} :
                      o2.err = "ok" /\ o2.db = o.db /\ o2.created = 0

\* A bulk pull has run, subscription "s1" holds the single item "i1" after
\* an earlier pull, and pulling that record again changes nothing.
C4_Witness ==
    /\ last = "sync"
    /\ subs["s1"].exists /\ items["i1"].exists /\ ~items["i2"].exists
    /\ \E page \in SubPages :
          /\ Len(page) = 1 /\ page[1].id = "s1" /\ Len(page[1].items) = 1
          /\ page[1].items[1].id = "i1"
          /\ \E o \in {stripe_api_update_subscriptions(DB, cfg, page, FALSE)} :
                o.err = "ok" /\ o.db = DB /\ o.created = 0

\* C5: handling a verified event payload a second time leaves the tables as
\* the first handling left them, for the subscription event handler and for
\* stripe_webhook, from every reachable database state.
C5_WebhookIdempotent ==
    /\ \A r \in RemoteSubs :
          \A h \in {handle_customer_subscription_event_data(DB, cfg, r)} :
             handle_customer_subscription_event_data(h.db, cfg, r).db = h.db
    /\ \A q \in WebhookRequests :
          q.sigOk => \A o \in {stripe_webhook(DB, cfg, q)} :
                        stripe_webhook(o.db, cfg, q).db = o.db

\* An event has been handled that linked a Subscription row and its items
\* to a billing account; the same payload handled again changes nothing.
C5_Witness ==
    /\ last = "event"
    /\ \E r \in RemoteSubs :
          /\ subs[r.id].exists /\ subs[r.id].ba_id # 0
          /\ accounts[subs[r.id].ba_id].sub = r.id
          /\ Len(r.items) > 0
          /\ \E h \in {handle_customer_subscription_event_data(DB, cfg, r)} :
                h.err = "ok" /\ h.db = DB

\* C6: when the user a remote customer resolves to (by e-mail) already has
\* a link storing another customer id, each entry point that resolves a
\* link from the customer raises the conflicting-mapping error and leaves
\* the tables as they were.
C6_ConflictRejected ==
    \A c \in Customers, u \in Users :
        (/\ remote[c] # "none"
         /\ u = First({v \in Users : users[v] = remote[c]})
         /\ stripeUser[u] \notin {"norow", "null", c}
         /\ \A v \in Users : stripeUser[v] # c)
        => /\ \A o \in {get_or_create_stripe_user_from_customer(
                            DB, cfg.createMap, RemoteCustomer(remote, c)),
                        get_or_create_stripe_user_from_customer_id(DB, cfg.createMap, c)} :
                 o.err = "ValueError" /\ o.db = DB
           /\ \A o \in {stripe_api_update_customers(DB, cfg, <<c>>)} :
                 o.err = "ValueError" /\ o.db = DB

\* C7: get_or_create_stripe_user(user_id=u) for an existing user never
\* raises, leaves the user's row with a customer id, leaves an existing
\* row as it is without contacting the provider, and a second call returns
\* the same customer id, changes nothing and does not contact the provider.
C7_ByUserIdIdempotent ==
    \A u \in Users :
        users[u] # "none" =>
            \A o \in {get_or_create_stripe_user_from_user_id(DB, u)} :
                /\ o.err = "ok" /\ o.user = u
                /\ o.db.su[u] \in Customers
                /\ stripeUser[u] # "norow" =>
                      ~o.remoteCalled /\ o.db = DB
                /\ \A o2 \in {get_or_create_stripe_user_from_user_id(o.db, u)} :
                      /\ o2.err = "ok" /\ o2.user = u
                      /\ o2.db = o.db
                      /\ ~o2.remoteCalled

\* A call for user 1 has created the row; user 1 is linked and a further
\* call returns that link without touching anything.
C7_Witness ==
    /\ last = "by_user_id"
    /\ stripeUser[1] \in Customers
    /\ \E o \in {get_or_create_stripe_user_from_user_id(DB, 1)} :
          o.err = "ok" /\ o.db = DB /\ ~o.remoteCalled

\* C8: requests checking out at once for the same user with no StripeUser
\* row never fail, and those that finished used the same non-empty customer
\* id, which is the one stored on the user's single row; no second remote
\* customer is created for an e-mail, and a request waiting on another's
\* insert waits for one that can still go on.
C8_ConcurrentCheckout ==
    /\ \A p \in Procs : pc[p] # "failed"
    /\ \A p \in Procs :
          pc[p] = "done" => /\ txn[p].sess \in Customers
                            /\ txn[p].sess = stripeUser[txn[p].user]
    /\ \A p, q \in Procs :
          (pc[p] = "done" /\ pc[q] = "done" /\ txn[p].user = txn[q].user)
              => txn[p].sess = txn[q].sess
    /\ \A e \in Emails : Cardinality({c \in Customers : remote[c] = e}) <= 1
    /\ \A p \in Procs :
          (pc[p] = "insert" /\ ~ENABLED LinkInsert(p))
              => \E q \in Procs \ {p} : ENABLED (LinkCustomer(q) \/ LinkSave(q) \/ LinkReturn(q))

\* Two requests for the same user have finished, one having created the
\* row and the other having hit the uniqueness violation and read again.
C8_Witness ==
    \E p, q \in Procs :
        /\ p # q /\ txn[p].user = txn[q].user
        /\ pc[p] = "done" /\ pc[q] = "done"
        /\ txn[p].path = "created" /\ txn[q].path = "conflict"
        /\ txn[p].sess = txn[q].sess /\ txn[p].sess \in Customers

\* C11: a request whose signature verifies is answered with 200 whatever
\* happens while it is processed; it writes nothing but a billing account's
\* subscription id, and nothing at all when the event type is not one of
\* the four recognised ones, when no account resolves or when the save fails.
C11_VerifiedAlwaysAccepted ==
    \A q \in WebhookRequests :
        q.sigOk =>
            \A o \in {stripe_webhook(DB, cfg, q)} :
                /\ o.status = 200
                /\ [o.db EXCEPT !.acc = accounts] = DB
                /\ \A a \in Accounts : [o.db.acc[a] EXCEPT !.sub = accounts[a].sub] = accounts[a]
                /\ (q.event.type \notin EventTypes \/ ~q.saveOk) => o.db = DB
                /\ (q.event.meta.owner_type = "app.Missing" /\ q.event.customer = "null")
                      => o.db = DB

\* A verified request has written a subscription id, and in this state a
\* verified event of an unrecognised type, and a recognised one whose save
\* fails, are answered with 200 and change nothing although the same
\* payload would resolve an account.
C11_Witness ==
    /\ last = "webhook"
    /\ \E q \in WebhookRequests :
          /\ q.sigOk /\ ~q.saveOk
          /\ stripe_webhook(DB, cfg, [q EXCEPT !.saveOk = TRUE]).db # DB
          /\ stripe_webhook(DB, cfg, q).status = 200
    /\ \E q \in WebhookRequests :
          /\ q.sigOk /\ q.event.type \notin EventTypes /\ q.event.meta.owner_type = "User"
          /\ stripe_webhook(DB, cfg, q).status = 200

\* C14: _stripe_api_get_or_create_customer_from_email returns the first
\* customer of the list for the e-mail and creates nothing when the list is
\* not empty, and creates a customer only when it is empty.
C14_FirstOfList ==
    \A email \in Emails :
        LET l == CustomerList(remote, email)
            r == stripe_api_get_or_create_customer_from_email(remote, email)
        IN  IF Len(l) > 0
            THEN r.id = l[1] /\ r.remote = remote /\ ~r.created
            ELSE r.id = "bound" \/ (r.created /\ remote[r.id] = "none" /\ r.remote[r.id] = email)

\* C15: a bulk pull that ignores user-creation errors never raises that
\* error; the records it skips are those whose customer has no user, and
\* the database after it is the one a pull of the page without the skipped
\* records leaves, in which every other record has its row and its items.
\* Without the flag, and on get_or_create_stripe_user(customer_id=...), the
\* error is raised and nothing is written.
C15_SkipOnlyTheRecord ==
    \A page \in SubPages :
        /\ \A o \in {stripe_api_update_subscriptions(DB, cfg, page, TRUE)} :
              /\ o.err # "CreatingNewUsersDisabledError"
              /\ o.err = "ok" =>
                    /\ o.db = stripe_api_update_subscriptions(
                                  DB, cfg,
                                  SelectSeq(page, LAMBDA r : r.id \notin o.skipped), TRUE).db
                    /\ \A i \in 1..Len(page) :
                          IF page[i].id \in o.skipped
                          THEN /\ o.db.subs[page[i].id] = subs[page[i].id]
                               /\ \A u \in Users : o.db.su[u] # page[i].customer
                               /\ get_or_create_stripe_user_from_customer_id(
                                      DB, cfg.createMap, page[i].customer).err
                                    = "CreatingNewUsersDisabledError"
                          ELSE /\ o.db.subs[page[i].id].exists
                               /\ o.db.subs[page[i].id].status = page[i].status
                               /\ \A j \in 1..Len(page[i].items) :
                                     /\ o.db.items[page[i].items[j].id].exists
                                     /\ o.db.items[page[i].items[j].id].sub = page[i].id
        /\ \A o \in {stripe_api_update_subscriptions(DB, cfg, page, FALSE)} :
              /\ o.skipped = {}
              /\ (\E i \in 1..Len(page) :
                     /\ get_billing_model(cfg.billing) # "ValueError"
                     /\ get_or_create_stripe_user_from_customer_id(
                            DB, cfg.createMap, page[i].customer).err
                          = "CreatingNewUsersDisabledError"
                     /\ \A j \in 1..(i - 1) : page[j].items[1].price \in Prices)
                    => o.err = "CreatingNewUsersDisabledError" /\ o.db = DB

\* A bulk pull has written subscription "s1" while skipping "s2", whose
\* customer has no user, in a page that holds both.
C15_Witness ==
    /\ last = "sync"
    /\ subs["s1"].exists /\ ~subs["s2"].exists
    /\ \E page \in SubPages :
          /\ Len(page) = 2 /\ page[1].id = "s2" /\ page[2].id = "s1"
          /\ \E o \in {stripe_api_update_subscriptions(DB, cfg, page, TRUE)} :
                o.err = "ok" /\ o.skipped = {"s2"} /\ o.db = DB

\* C16: both bulk pulls raise for every limit outside 1..100, 0 and the
\* negative ones included, and write nothing.
C16_LimitRange ==
    \A limit \in Limits :
        limit \notin 1..MaxLimit =>
            /\ LimitRejected(limit)
            /\ \A page \in SubPages :
                  \A o \in {stripe_api_update_subscriptions_limit(DB, cfg, limit, page, FALSE)} :
                     o.err = "ValueError" /\ o.db = DB
            /\ \A page \in CustomerPages(remote) :
                  \A o \in {stripe_api_update_customers_limit(DB, cfg, limit, page)} :
                     o.err = "ValueError" /\ o.db = DB

\* C17: a subscription event or a bulk page that fails partway leaves
\* none of its writes: the tables are as they were before it.
C17_AllOrNothing ==
    /\ \A page \in SubPages :
          \A o \in {stripe_api_update_subscriptions(DB, cfg, page, FALSE)} :
             o.err # "ok" => o.db = DB
    /\ \A r \in RemoteSubs :
          \A h \in {handle_customer_subscription_event_data(DB, cfg, r)} :
             h.err # "ok" => h.db = DB

\* C18: a read of a key after a reload returns the value Django's
\* DRF_STRIPE gives it, and the default when it gives none; the default of
\* CUSTOMER_PORTAL_RETURN_URL_PATH is "manage-subscription".
C18_ReadAfterReload ==
    \A k \in SettingKeys :
        \A r \in {getattr(reload(drf_stripe_settings), k)} :
            /\ r.err = "ok"
            /\ r.val = IF k \in DOMAIN drf_stripe_settings.DRF_STRIPE
                       THEN drf_stripe_settings.DRF_STRIPE[k]
                       ELSE IF k \in DOMAIN DEFAULTS THEN DEFAULTS[k]
                       ELSE "manage-subscription"

\* C12: a checkout request in billing-account mode by a user who cannot
\* manage the resolved account fails with the authorization error and
\* changes nothing: no account row, no remote customer, no session.
C12_DeniedChangesNothing ==
    \A q \in CheckoutRequests :
        (users[q.user] # "none" /\ webhook_billing_model(cfg.billing) = "model") =>
            \A o \in {checkout_validate(DB, cfg, q)} :
                \A b \in {checkout_billing_customer(DB, cfg, q)} :
                    (b.ba # 0 /\ ~can_manage_billing(b.db.acc, b.ba, q.user)) =>
                        /\ o.exc = Exc("ValidationError", "User is not authorized")
                        /\ o.session = NoSession
                        /\ ~o.customerCreated
                        /\ o.db = DB

\* The kinds of validation error validate reports.
CheckoutErrorKinds ==
    {"Unknown owner_type", "Failed to resolve billing account",
     "Cannot create or resolve billing account", "User is not authorized",
     "Failed to resolve legacy Stripe user", "provider error", "exception text"}

\* C13: every checkout request, in legacy and in billing-account mode,
\* ends with a session or with a validation error of a defined kind; an
\* unknown owner type, a missing owner, a denied user and a failing
\* provider call are validation errors, never another exception.
C13_SessionOrValidationError ==
    \A q \in CheckoutRequests :
        users[q.user] # "none" =>
            \A o \in {checkout_validate(DB, cfg, q)} :
                \/ o.exc.type = "bound"
                \/ o.exc = NoExc /\ o.session.via \in {"helper", "fallback"}
                                 /\ o.session.customer # "null"
                \/ /\ o.exc.type = "ValidationError"
                   /\ o.exc.kind \in CheckoutErrorKinds
                   /\ o.session = NoSession

\* Checkout requests have written, and the state admits a session, a
\* request for a missing owner, one for an unknown owner type and one whose
\* provider call fails.
C13_Witness ==
    /\ last = "checkout"
    /\ webhook_billing_model(cfg.billing) = "model"
    /\ \E q \in CheckoutRequests :
          /\ checkout_owner(DB, q).exc.type = "DoesNotExist"
          /\ checkout_validate(DB, cfg, q).exc.kind = "Failed to resolve billing account"
    /\ \E q \in CheckoutRequests :
          /\ q.provider = "customer_fails"
          /\ checkout_billing_customer(DB, cfg, q).exc.type = "StripeError"
          /\ checkout_validate(DB, cfg, q).exc.type = "ValidationError"
    /\ \E q \in CheckoutRequests :
          checkout_validate(DB, cfg, q).exc.kind = "Unknown owner_type"
    /\ \E q \in CheckoutRequests :
          checkout_validate(DB, cfg, q).session.via = "fallback"

\* C19: a session that validate requests in billing-account mode has the
\* account's seats as its quantity when the account has the attribute, and
\* the configured DEFAULT_SUBSCRIPTION_QUANTITY otherwise.
C19_QuantityFromSeatsOrSetting ==
    \A q \in CheckoutRequests :
        (users[q.user] # "none" /\ webhook_billing_model(cfg.billing) = "model") =>
            \A o \in {checkout_validate(DB, cfg, q)} :
                o.session.via = "fallback" =>
                    o.session.quantity =
                        IF q.seats # 0 THEN q.seats
                        ELSE getattr(drf_stripe_settings, "DEFAULT_SUBSCRIPTION_QUANTITY").val

\* The account table t keeps every customer id stored in accounts.
CustomerIdsKept(t) ==
    \A a \in Accounts :
        (accounts[a].exists /\ accounts[a].cust # "null") =>
            t[a].exists /\ t[a].cust = accounts[a].cust

C21_EventEqualsSinglePage ==
    \A r \in RemoteSubs :
        \A h \in {handle_customer_subscription_event_data(DB, cfg, r)} :
            \A o \in {stripe_api_update_subscriptions(DB, cfg, <<r>>, FALSE)} :
                o.err # "bound" =>
                    /\ h.db = o.db
                    /\ (h.err = "ok") = (o.err = "ok")

\* C22: processing a subscription or an event whose customer id and
\* subscription id equal those stored on the resolved account saves
\* nothing on that account, in the bulk pull, in the event handler and in
\* stripe_webhook.
C22_NoWriteWhenEqual ==
    /\ \A r \in RemoteSubs :
          \A u \in {First({x \in Users : stripeUser[x] = r.customer})} :
             \A ba \in {find_billing_account(accounts, get_billing_model(cfg.billing),
                                             r.customer, u)} :
                (ba # 0 /\ accounts[ba].cust = r.customer /\ accounts[ba].sub = r.id) =>
                    account_update_fields(accounts, ba, r.customer, r.id) = {}
    /\ \A q \in WebhookRequests :
          \A ba \in {webhook_billing_account(DB, cfg, q.event)} :
             (/\ q.sigOk /\ ba # 0
              /\ accounts[ba].sub = webhook_subscription_id(q.event)
              /\ q.event.customer # "null"
              /\ accounts[ba].cust = q.event.customer) =>
                 stripe_webhook_saves(DB, cfg, q) = {}

\* The account that stores the customer id, 0 when there is none.
AccountOfCustomer(customer) ==
    IF customer = "null" THEN 0
    ELSE First({a \in Accounts : accounts[a].exists /\ accounts[a].cust = customer})

\* The account table t is accounts with the subscription id sid on ba.
OnlySubscriptionOf(t, ba, sid) ==
    t = [accounts EXCEPT ![ba].sub = sid]

\* C23: with the billing model resolved, stripe_webhook gives the
\* subscription id to the account the owner metadata resolves to, also
\* when another account stores the event's customer id; it looks the
\* customer id up only when the metadata gives no account; and it writes
\* nothing when neither gives one.
C23_MetadataBeforeCustomer ==
    \A q \in WebhookRequests :
        (/\ q.sigOk /\ q.saveOk /\ q.event.type \in EventTypes
         /\ webhook_billing_model(cfg.billing) = "model") =>
            \A o \in {stripe_webhook(DB, cfg, q)} :
               \A m \in {webhook_account_by_metadata(DB, cfg, q.event.meta)} :
                  \A bc \in {AccountOfCustomer(q.event.customer)} :
                     /\ m # 0 =>
                           OnlySubscriptionOf(o.db.acc, m, webhook_subscription_id(q.event))
                     /\ (m = 0 /\ bc # 0) =>
                           OnlySubscriptionOf(o.db.acc, bc, webhook_subscription_id(q.event))
                     /\ (m = 0 /\ bc = 0) => o.db = DB

\* A webhook request has written, and an event names by its metadata an
\* account other than the one that stores its customer id.
C23_Witness ==
    /\ last = "webhook"
    /\ \E q \in WebhookRequests :
          /\ q.sigOk /\ q.saveOk /\ q.event.type \in EventTypes
          /\ webhook_account_by_metadata(DB, cfg, q.event.meta) # 0
          /\ AccountOfCustomer(q.event.customer) # 0
          /\ AccountOfCustomer(q.event.customer)
               # webhook_account_by_metadata(DB, cfg, q.event.meta)
          /\ accounts[webhook_account_by_metadata(DB, cfg, q.event.meta)].sub
               = webhook_subscription_id(q.event)
          /\ accounts[AccountOfCustomer(q.event.customer)].sub
               # webhook_subscription_id(q.event)

\* C24: no two StripeUser rows hold the same customer id, whatever
\* sequence of customer pulls and get_or_create_stripe_user calls ran, so a
\* lookup by customer id matches at most one row.
C24_CustomerIdUnique ==
    \A u, v \in Users :
        (u # v /\ stripeUser[u] \notin {"norow", "null"}) => stripeUser[u] # stripeUser[v]

\* C25: an account whose has_active_subscription() is true has a
\* Subscription row under its stripe_subscription_id, and the status of
\* that row grants access; a cancelled subscription never leaves it true.
C25_ActiveMeansGranting ==
    \A a \in Accounts :
        (accounts[a].exists /\ has_active_subscription(accounts, a)) =>
            /\ accounts[a].sub \in SubIds
            /\ subs[accounts[a].sub].exists
            /\ subs[accounts[a].sub].status = "active"

\* C26: when the event carrying the newer state of a subscription is
\* handled first and the one carrying its older state after it, the
\* Subscription row and its items reflect the newer state.
C26_NewerEventWins ==
    \A newer, older \in RemoteSubs :
        (newer.id = older.id /\ newer # older) =>
            \A h1 \in {handle_customer_subscription_event_data(DB, cfg, newer)} :
                \A h2 \in {handle_customer_subscription_event_data(h1.db, cfg, older)} :
                    (h1.err = "ok" /\ h2.err = "ok") =>
                        /\ h2.db.subs[newer.id].status = newer.status
                        /\ h2.db.items = h1.db.items

\* C27: when synchronizations of one subscription with different item
\* lists have run at once and all ended, the subscription's items are the
\* list of exactly one of them, in every interleaving of their steps.
C27_ItemsOfOneRun ==
    \A sid \in SubIds :
        (/\ \A p \in Procs : pc[p] = "items_done" /\ txn[p].data[1].id = sid
         /\ \E p, q \in Procs : ItemSet(txn[p].data[1]) # ItemSet(txn[q].data[1])) =>
            \E p \in Procs : ItemsOf(items, sid) = ItemSet(txn[p].data[1])

\* C28: when checkout requests for one account have called
\* get_or_create_stripe_customer at once and returned, at most one remote
\* customer exists for the account and every call returned the id that the
\* account stores.
C28_OneCustomerPerAccount ==
    \A a \in Accounts :
        (\A p \in Procs : pc[p] = "customer_done" /\ txn[p].ba = a) =>
            /\ \A p \in Procs : txn[p].sess = accounts[a].cust
            /\ Cardinality({p \in Procs : txn[p].path = "created"}) <= 1

\* C29: the account stripe_webhook resolves from owner metadata naming
\* type T and id n is owned by the object of type T with id n, and that
\* object exists; otherwise the metadata resolves to no account.
C29_MetadataOwnerMatches ==
    \A q \in WebhookRequests :
        (q.sigOk /\ q.event.type \in EventTypes
         /\ webhook_billing_model(cfg.billing) = "model") =>
            \A m \in {webhook_account_by_metadata(DB, cfg, q.event.meta)} :
                m # 0 =>
                    /\ accounts[m].ownerCt = q.event.meta.owner_type
                    /\ accounts[m].ownerId = q.event.meta.owner_id
                    /\ TargetOwner(DB, q.event.meta.owner_type, q.event.meta.owner_id) # 0

\* C30: a value stripe_webhook stores as an account's subscription id is
\* the object's subscription field for checkout-session and invoice events
\* and the object's id for subscription events; an event of the first two
\* kinds without a subscription stores nothing.
C30_StoredIdIsSubscription ==
    \A q \in WebhookRequests :
        q.sigOk =>
            \A o \in {stripe_webhook(DB, cfg, q)} :
                \A a \in Accounts :
                    o.db.acc[a].sub # accounts[a].sub =>
                        /\ o.db.acc[a].sub \in SubIds
                        /\ o.db.acc[a].sub =
                              IF q.event.type \in {"customer.subscription.created",
                                                   "customer.subscription.updated"}
                              THEN q.event.id ELSE q.event.subscription

C10_BadSignatureRejected ==
    \A q \in WebhookRequests :
        ~q.sigOk => \A o \in {stripe_webhook(DB, cfg, q)} :
                       o.status = 400 /\ ~o.lookup /\ o.db = DB

\* A request has been answered with 400 in a state where the same payload
\* with a valid signature would have written to a billing account.
C10_Witness ==
    /\ last = "rejected"
    /\ \E q \in WebhookRequests :
          /\ ~q.sigOk
          /\ stripe_webhook(DB, cfg, [q EXCEPT !.sigOk = TRUE]).db # DB

====
